---- MODULE Spec2Model ----
(***************************************************************************)
(* Model of src/commands/zencrepes.ts: the `zencrepes` command that turns  *)
(* a test report into a signed ZenCrepes state node and POSTs it.          *)
(*                                                                         *)
(* Strings that the code inspects character by character (names and        *)
(* versions) are sequences of UTF-16 code units; strings the code only     *)
(* passes along (urls, the secret) are opaque.                             *)
(***************************************************************************)
EXTENDS Integers, Sequences, FiniteSets, TLC

\* ------------------------------------------------------------------ bounds
MaxDeps == 2            \* longest --dependencies array
MaxManifestDeps == 1    \* longest dependencies array of the version file
MaxCount == 2           \* largest tests / failures count of a report
MaxCalls == 2           \* getId calls recorded by the getId harness

\* ------------------------------------------------- strings as code units
\* "Jahia", "My-Mod", "mymod"
NameJahia == <<74, 97, 104, 105, 97>>
NameMyMod == <<77, 121, 45, 77, 111, 100>>
NameMymod == <<109, 121, 109, 111, 100>>
\* "SNAPSHOT", "1.0.0", "100"
VersionSnapshot == <<83, 78, 65, 80, 83, 72, 79, 84>>
Version1_0_0 == <<49, 46, 48, 46, 48>>
Version100 == <<49, 48, 48>>

NameValues == {NameJahia, NameMyMod}
VersionValues == {VersionSnapshot, Version1_0_0}

\* dependencies a caller may pass: {a, 1.0}, {B, 1}
\* (raw code-unit order is B < a; the cleaned order is a < b)
DependencyValues ==
    { [name |-> <<97>>, version |-> <<49, 46, 48>>],
      [name |-> <<66>>, version |-> <<49>>] }

\* dependencies a version file may declare: {a, 10}, {G, 2}
ManifestDependencyValues ==
    { [name |-> <<97>>, version |-> <<49, 48>>],
      [name |-> <<71>>, version |-> <<50>>] }

\* version file fields: jahia.version "8.1", jahia.build "5"; module.version
JahiaVersionValues == { <<56, 46, 49>> }
JahiaBuildValues == { <<53>> }
ModuleVersionValues == { <<50, 46, 48>>, VersionSnapshot }

SecretValues == {"abc", "xyz"}
DurationValues == {12}
ClockValues == {"t1"}

SeqsUpTo(S, n) == UNION { [1..k -> S] : k \in 0..n }

\* ------------------------------------------------------------ prepString
IsAlnum(c) == c \in 48..57 \/ c \in 65..90 \/ c \in 97..122

toLowerCase(c) == IF c \in 65..90 THEN c + 32 ELSE c

prepStringNoLower(s) == SelectSeq(s, IsAlnum)

prepString(s) ==
    LET stripped == SelectSeq(s, IsAlnum)
    IN  [i \in 1..Len(stripped) |-> toLowerCase(stripped[i])]

\* --------------------------------------------- the comparator and the sort
\* a < b on JavaScript strings: lexicographic on code units
RECURSIVE StrLess(_, _)
StrLess(a, b) ==
    IF b = <<>> THEN FALSE
    ELSE IF a = <<>> THEN TRUE
    ELSE IF a[1] # b[1] THEN a[1] < b[1]
    ELSE StrLess(Tail(a), Tail(b))

compare(a, b) ==
    IF StrLess(b.name, a.name) THEN 1
    ELSE IF StrLess(a.name, b.name) THEN -1
    ELSE IF StrLess(b.version, a.version) THEN 1
    ELSE IF StrLess(a.version, b.version) THEN -1
    ELSE 0

\* Array.prototype.sort(compare): a stable sort; the array after the call
RECURSIVE insertSorted(_, _)
insertSorted(d, s) ==
    IF s = <<>> THEN <<d>>
    ELSE IF compare(s[1], d) > 0 THEN <<d>> \o s
    ELSE <<s[1]>> \o insertSorted(d, Tail(s))

RECURSIVE sort(_)
sort(s) ==
    IF s = <<>> THEN <<>>
    ELSE insertSorted(s[Len(s)], sort(SubSeq(s, 1, Len(s) - 1)))

\* ----------------------------------------------------------------- getId
UUID_NAMESPACE == "c72d8f12-1818-4cb9-bead-44634c441c11"

\* uuid v5: a name-based hash, kept symbolic (namespace and hashed name)
uuidv5(name, namespace) == [uuid5 |-> name, namespace |-> namespace]

RECURSIVE appendDependencies(_, _)
appendDependencies(idStr, deps) ==
    IF deps = <<>> THEN idStr
    ELSE appendDependencies(
             idStr \o prepString(deps[1].name) \o prepString(deps[1].version),
             Tail(deps))

getIdUnsorted(name, version, dependencies) ==
    uuidv5(appendDependencies(prepString(name) \o prepString(version),
                              dependencies),
           UUID_NAMESPACE)

\* the value getId returns
getId(name, version, dependencies) ==
    uuidv5(appendDependencies(prepString(name) \o prepString(version),
                              sort(dependencies)),
           UUID_NAMESPACE)

\* the caller's array once getId has returned: sort() works in place
dependenciesAfterGetId(dependencies) == sort(dependencies)

\* ------------------------------------------------------------------ JSON
\* A JSON text is either malformed or the key/value pairs of a value.
MalformedJSON == [wellFormed |-> FALSE, text |-> <<>>]

stringifyDependencies(deps) ==
    [i \in 1..Len(deps) |->
        << <<"name", deps[i].name>>, <<"version", deps[i].version>> >>]

parseDependencies(text) ==
    [i \in 1..Len(text) |-> [name |-> text[i][1][2], version |-> text[i][2][2]]]

\* JSON.stringify(zcPayload): the keys in the order the literal sets them
JSONstringify(p) ==
    << <<"id", p.id>>,
       <<"name", p.name>>,
       <<"version", p.version>>,
       <<"dependencies", stringifyDependencies(p.dependencies)>>,
       <<"createdAt", p.createdAt>>,
       <<"state", p.state>>,
       <<"url", p.url>>,
       <<"runTotal", p.runTotal>>,
       <<"runSuccess", p.runSuccess>>,
       <<"runFailure", p.runFailure>>,
       <<"runDuration", p.runDuration>> >>

\* the utils:modules version file as JSON text, and its parse
stringifyVersionFile(v) ==
    << <<"jahia", << <<"version", v.jahia.version>>, <<"build", v.jahia.build>> >> >>,
       <<"module", << <<"version", v.module.version>> >> >>,
       <<"dependencies", stringifyDependencies(v.dependencies)>> >>

parseVersionFile(text) ==
    [jahia |-> [version |-> text[1][2][1][2], build |-> text[1][2][2][2]],
     module |-> [version |-> text[2][2][1][2]],
     dependencies |-> parseDependencies(text[3][2])]

\* crypto.createHmac('sha1', secret).update(data).digest('hex'), symbolic
hmacSha1Hex(secret, data) == [hmac |-> "sha1", key |-> secret, data |-> data]

\* ------------------------------------------------------------ the inputs
DependenciesFlagValues ==
    {MalformedJSON} \cup
    { [wellFormed |-> TRUE, text |-> stringifyDependencies(d)] :
        d \in SeqsUpTo(DependencyValues, MaxDeps) }

VersionFileValues ==
    { [jahia |-> [version |-> jv, build |-> jb],
       module |-> [version |-> mv],
       dependencies |-> d] :
        jv \in JahiaVersionValues, jb \in JahiaBuildValues,
        mv \in ModuleVersionValues,
        d \in SeqsUpTo(ManifestDependencyValues, MaxManifestDeps) }

\* what fs.readFileSync finds at flags.versionFilepath
FileValues ==
    { [exists |-> FALSE, content |-> MalformedJSON],
      [exists |-> TRUE, content |-> MalformedJSON] } \cup
    { [exists |-> TRUE,
       content |-> [wellFormed |-> TRUE, text |-> stringifyVersionFile(v)]] :
        v \in VersionFileValues }

ReportValues ==
    [tests : 0..MaxCount, failures : 0..MaxCount, time : DurationValues]

NoReport == [tests |-> 0, failures |-> 0, time |-> 0]
NoPayload == <<>>

VARIABLES
    flags,          \* the parsed flags: name, version, dependencies, url, versionFilepath
    args,           \* the parsed args: file, payloadurl, secret
    file,           \* what the file system holds at flags.versionFilepath
    pc,             \* position of run()
    report,         \* const report
    dependencies,   \* let dependencies
    elementVersion, \* let elementVersion
    id,             \* the value of the id property, evaluated first
    zcPayload,      \* const zcPayload
    xHubSignature,  \* const xHubSignature
    stdout,         \* lines written by this.log
    requests,       \* POST requests handed to the transport, in order
    done,           \* stages of run() completed so far, in order
    callArgs,       \* getId harness: the arguments of the next call
    calls           \* getId harness: the calls made so far

runVars == <<flags, args, file, pc, report, dependencies, elementVersion, id,
             zcPayload, xHubSignature, stdout, requests, done>>
harnessVars == <<callArgs, calls>>
vars == <<flags, args, file, pc, report, dependencies, elementVersion, id,
          zcPayload, xHubSignature, stdout, requests, done, callArgs, calls>>

NoCallArgs == [name |-> <<>>, version |-> <<>>, dependencies |-> <<>>]

\* -------------------------------------------------------------- run(): Init
\* this.parse(JahiaTestrailReporter) has produced args and flags
InitRun ==
    /\ flags \in [name : NameValues,
                  version : VersionValues,
                  dependencies : DependenciesFlagValues,
                  url : {""},
                  versionFilepath : {"undefined", "versions.json"}]
    /\ args \in [file : {"report.xml"}, payloadurl : {"https://zqueue"},
                 secret : SecretValues]
    /\ file \in FileValues
    /\ flags.versionFilepath = "undefined" => file = [exists |-> FALSE, content |-> MalformedJSON]
    /\ pc = "start"
    /\ report = NoReport
    /\ dependencies = <<>>
    /\ elementVersion = <<>>
    /\ id = uuidv5(<<>>, "")
    /\ zcPayload = NoPayload
    /\ xHubSignature = <<>>
    /\ stdout = <<>>
    /\ requests = <<>>
    /\ done = <<>>

Init ==
    /\ InitRun
    /\ callArgs = NoCallArgs
    /\ calls = <<>>

\* ------------------------------------------------- getId called on its own
\* A caller holds name, version and a dependencies array, calls getId and
\* keeps the array (callArgs); `calls` records each call: the array before,
\* the array after and the id returned.
CallArgValues ==
    [name : {NameMyMod, NameMymod},
     version : {Version1_0_0, Version100},
     dependencies : SeqsUpTo(DependencyValues, MaxDeps)]

InitGetId ==
    /\ callArgs = NoCallArgs
    /\ calls = <<>>
    /\ flags = [name |-> NameJahia, version |-> VersionSnapshot,
                dependencies |-> [wellFormed |-> TRUE, text |-> <<>>],
                url |-> "", versionFilepath |-> "undefined"]
    /\ args = [file |-> "report.xml", payloadurl |-> "https://zqueue",
               secret |-> "abc"]
    /\ file = [exists |-> FALSE, content |-> MalformedJSON]
    /\ pc = "idle"
    /\ report = NoReport
    /\ dependencies = <<>>
    /\ elementVersion = <<>>
    /\ id = uuidv5(<<>>, "")
    /\ zcPayload = NoPayload
    /\ xHubSignature = <<>>
    /\ stdout = <<>>
    /\ requests = <<>>
    /\ done = <<>>

\* lines 20-37: the caller calls getId(name, version, dependencies) and is
\* left with its array as the call leaves it
CallGetId ==
    /\ Len(calls) < MaxCalls
    /\ \E a \in CallArgValues :
         /\ calls' = Append(calls,
                            [name |-> a.name,
                             version |-> a.version,
                             before |-> a.dependencies,
                             after |-> dependenciesAfterGetId(a.dependencies),
                             id |-> getId(a.name, a.version, a.dependencies)])
         /\ callArgs' = [a EXCEPT
                            !.dependencies = dependenciesAfterGetId(a.dependencies)]
    /\ UNCHANGED runVars

NextGetId == CallGetId

SpecGetId == InitGetId /\ [][NextGetId]_vars

\* ------------------------------------------------------------ run(): steps
\* line 92: const report = await ingestReport(flags.type, args.file, this.log)
Ingest ==
    /\ pc = "start"
    /\ \/ /\ report' \in ReportValues
          /\ pc' = "ingested"
          /\ done' = Append(done, "ingest")
       \/ /\ pc' = "failed"              \* ingestReport rejects
          /\ UNCHANGED <<report, done>>
    /\ UNCHANGED <<flags, args, file, dependencies, elementVersion, id,
                   zcPayload, xHubSignature, stdout, requests>>
    /\ UNCHANGED harnessVars

\* lines 95-96: JSON.parse(flags.dependencies); elementVersion = flags.version
ParseDependencies ==
    /\ pc = "ingested"
    /\ IF flags.dependencies.wellFormed
       THEN /\ dependencies' = parseDependencies(flags.dependencies.text)
            /\ elementVersion' = flags.version
            /\ pc' = "parsed"
       ELSE /\ pc' = "failed"            \* JSON.parse throws
            /\ UNCHANGED <<dependencies, elementVersion>>
    /\ UNCHANGED <<flags, args, file, report, id, zcPayload, xHubSignature,
                   stdout, requests, done>>
    /\ UNCHANGED harnessVars

\* lines 97-103 with flags.versionFilepath === undefined: nothing changes
SkipVersionFile ==
    /\ pc = "parsed"
    /\ flags.versionFilepath = "undefined"
    /\ pc' = "resolved"
    /\ done' = Append(done, "resolve")
    /\ UNCHANGED <<flags, args, file, report, dependencies, elementVersion,
                   id, zcPayload, xHubSignature, stdout, requests>>
    /\ UNCHANGED harnessVars

\* the same step with the manifest dependencies ahead of the explicit ones
ReadVersionFileReordered ==
    /\ pc = "parsed"
    /\ flags.versionFilepath # "undefined"
    /\ IF file.exists /\ file.content.wellFormed
       THEN LET version == parseVersionFile(file.content.text)
            IN  /\ dependencies' =
                       version.dependencies
                       \o <<[name |-> NameJahia,
                             version |-> version.jahia.version \o <<45>>
                                         \o version.jahia.build]>>
                       \o dependencies
                /\ elementVersion' = version.module.version
                /\ pc' = "resolved"
                /\ done' = Append(done, "resolve")
       ELSE /\ pc' = "failed"
            /\ UNCHANGED <<dependencies, elementVersion, done>>
    /\ UNCHANGED <<flags, args, file, report, id, zcPayload, xHubSignature,
                   stdout, requests>>
    /\ UNCHANGED harnessVars

\* lines 97-103 with a versionFilepath: read it, parse it, extend the list
ReadVersionFile ==
    /\ pc = "parsed"
    /\ flags.versionFilepath # "undefined"
    /\ IF file.exists /\ file.content.wellFormed
       THEN LET version == parseVersionFile(file.content.text)
                pushed == Append(dependencies,
                                 [name |-> NameJahia,
                                  version |-> version.jahia.version \o <<45>>
                                              \o version.jahia.build])
            IN  /\ dependencies' = pushed \o version.dependencies
                /\ elementVersion' = version.module.version
                /\ pc' = "resolved"
                /\ done' = Append(done, "resolve")
       ELSE /\ pc' = "failed"            \* readFileSync or JSON.parse throws
            /\ UNCHANGED <<dependencies, elementVersion, done>>
    /\ UNCHANGED <<flags, args, file, report, id, zcPayload, xHubSignature,
                   stdout, requests>>
    /\ UNCHANGED harnessVars

\* the id derived from the resolved version instead of the flag
DeriveIdFromElementVersion ==
    /\ pc = "resolved"
    /\ id' = getId(flags.name, elementVersion, dependencies)
    /\ dependencies' = dependenciesAfterGetId(dependencies)
    /\ pc' = "identified"
    /\ done' = Append(done, "id")
    /\ UNCHANGED <<flags, args, file, report, elementVersion, zcPayload,
                   xHubSignature, stdout, requests>>
    /\ UNCHANGED harnessVars

\* line 107: id: getId(flags.name, flags.version, dependencies), the first
\* property of the literal; the call sorts `dependencies` in place
DeriveId ==
    /\ pc = "resolved"
    /\ id' = getId(flags.name, flags.version, dependencies)
    /\ dependencies' = dependenciesAfterGetId(dependencies)
    /\ pc' = "identified"
    /\ done' = Append(done, "id")
    /\ UNCHANGED <<flags, args, file, report, elementVersion, zcPayload,
                   xHubSignature, stdout, requests>>
    /\ UNCHANGED harnessVars

\* the payload with runSuccess taken as the run total
BuildPayloadNoSubtract ==
    /\ pc = "identified"
    /\ \E now \in ClockValues :
         zcPayload' = [id |-> id,
                       name |-> flags.name,
                       version |-> elementVersion,
                       dependencies |-> dependencies,
                       createdAt |-> <<"ISO", now>>,
                       state |-> IF report.failures = 0 THEN "PASS" ELSE "FAIL",
                       url |-> flags.url,
                       runTotal |-> report.tests,
                       runSuccess |-> report.tests,
                       runFailure |-> report.failures,
                       runDuration |-> report.time]
    /\ pc' = "built"
    /\ done' = Append(done, "payload")
    /\ UNCHANGED <<flags, args, file, report, dependencies, elementVersion,
                   id, xHubSignature, stdout, requests>>
    /\ UNCHANGED harnessVars

\* lines 106-118: the remaining properties of zcPayload
BuildPayload ==
    /\ pc = "identified"
    /\ \E now \in ClockValues :
         zcPayload' = [id |-> id,
                       name |-> flags.name,
                       version |-> elementVersion,
                       dependencies |-> dependencies,
                       createdAt |-> <<"ISO", now>>,
                       state |-> IF report.failures = 0 THEN "PASS" ELSE "FAIL",
                       url |-> flags.url,
                       runTotal |-> report.tests,
                       runSuccess |-> report.tests - report.failures,
                       runFailure |-> report.failures,
                       runDuration |-> report.time]
    /\ pc' = "built"
    /\ done' = Append(done, "payload")
    /\ UNCHANGED <<flags, args, file, report, dependencies, elementVersion,
                   id, xHubSignature, stdout, requests>>
    /\ UNCHANGED harnessVars

\* the text signed when the url property is left out of it
signedTextWithoutUrl(p) ==
    SelectSeq(JSONstringify(p), LAMBDA kv : kv[1] # "url")

\* line 124: the text handed to hmac.update
signedText(p) == JSONstringify(p)

\* lines 122-127: xHubSignature = 'sha1=' + hex HMAC-SHA1 of the payload text
Sign ==
    /\ pc = "built"
    /\ xHubSignature' = <<"sha1=", hmacSha1Hex(args.secret, signedText(zcPayload))>>
    /\ pc' = "signed"
    /\ done' = Append(done, "sign")
    /\ UNCHANGED <<flags, args, file, report, dependencies, elementVersion,
                   id, zcPayload, stdout, requests>>
    /\ UNCHANGED harnessVars

\* the log step writing nothing
LogNothing ==
    /\ pc = "signed"
    /\ pc' = "logged"
    /\ done' = Append(done, "log")
    /\ UNCHANGED <<flags, args, file, report, dependencies, elementVersion,
                   id, zcPayload, xHubSignature, stdout, requests>>
    /\ UNCHANGED harnessVars

\* line 129: this.log(JSON.stringify(zcPayload))
Log ==
    /\ pc = "signed"
    /\ stdout' = Append(stdout, JSONstringify(zcPayload))
    /\ pc' = "logged"
    /\ done' = Append(done, "log")
    /\ UNCHANGED <<flags, args, file, report, dependencies, elementVersion,
                   id, zcPayload, xHubSignature, requests>>
    /\ UNCHANGED harnessVars

\* the body the transport puts on the wire for post(url, data): JSON of data
requestBody(data) == JSONstringify(data)

request ==
    [method |-> "POST",
     url |-> args.payloadurl,
     headers |-> << <<"x-hub-signature", xHubSignature>>,
                    <<"Content-Type", "application/json">> >>,
     body |-> requestBody(zcPayload)]

\* the send step trying again after a transport failure
PostWithRetry ==
    /\ pc = "logged"
    /\ Len(requests) < 2
    /\ requests' = Append(requests, request)
    /\ \/ /\ pc' = "done"
          /\ done' = Append(done, "send")
       \/ /\ pc' = "logged"
          /\ UNCHANGED done
    /\ UNCHANGED <<flags, args, file, report, dependencies, elementVersion,
                   id, zcPayload, xHubSignature, stdout>>
    /\ UNCHANGED harnessVars

\* lines 131-134: one synchronous POST; it returns or throws
Post ==
    /\ pc = "logged"
    /\ requests' = Append(requests, request)
    /\ \/ /\ pc' = "done"
          /\ done' = Append(done, "send")
       \/ /\ pc' = "failed"              \* the transport throws
          /\ UNCHANGED done
    /\ UNCHANGED <<flags, args, file, report, dependencies, elementVersion,
                   id, zcPayload, xHubSignature, stdout>>
    /\ UNCHANGED harnessVars

Next ==
    \/ Ingest
    \/ ParseDependencies
    \/ SkipVersionFile
    \/ ReadVersionFile
    \/ DeriveId
    \/ BuildPayload
    \/ Sign
    \/ Log
    \/ Post

Spec == Init /\ [][Next]_vars

\* ============================================================ properties
Completed(stage) == \E i \in 1..Len(done) : done[i] = stage

\* the --dependencies array as the caller wrote it
ExplicitDependencies ==
    CHOOSE d \in SeqsUpTo(DependencyValues, MaxDeps) :
        stringifyDependencies(d) = flags.dependencies.text

\* the version file as it was written
Manifest ==
    CHOOSE v \in VersionFileValues :
        stringifyVersionFile(v) = file.content.text

HasManifest == flags.versionFilepath # "undefined"

SynthesizedDependency ==
    [name |-> NameJahia,
     version |-> Manifest.jahia.version \o <<45>> \o Manifest.jahia.build]

\* explicit dependencies, then the Jahia dependency, then the manifest's
EffectiveDependencies ==
    IF HasManifest
    THEN ExplicitDependencies \o <<SynthesizedDependency>> \o Manifest.dependencies
    ELSE ExplicitDependencies

Occurrences(s, d) == Cardinality({i \in 1..Len(s) : s[i] = d})

IsPermutation(s, t) ==
    /\ Len(s) = Len(t)
    /\ \A i \in 1..Len(s) : Occurrences(s, s[i]) = Occurrences(t, s[i])

SameLetter(c, d) ==
    \/ c = d
    \/ c \in 65..90 /\ d = c + 32
    \/ d \in 65..90 /\ c = d + 32

\* a and b agree once non-alphanumerics are dropped and case is ignored
RECURSIVE SameCleaned(_, _)
SameCleaned(a, b) ==
    IF a # <<>> /\ ~IsAlnum(a[1]) THEN SameCleaned(Tail(a), b)
    ELSE IF b # <<>> /\ ~IsAlnum(b[1]) THEN SameCleaned(a, Tail(b))
    ELSE IF a = <<>> \/ b = <<>> THEN a = <<>> /\ b = <<>>
    ELSE SameLetter(a[1], b[1]) /\ SameCleaned(Tail(a), Tail(b))

StageOrder == <<"ingest", "resolve", "id", "payload", "sign", "log", "send">>

\* C1: the dependencies field of the built Event is the effective dependency
\* list in insertion order (explicit, then Jahia, then manifest), also when
\* that list is not sorted by (name, version).
C1_DependenciesKeepInsertionOrder ==
    Completed("payload") => zcPayload.dependencies = EffectiveDependencies

\* C2: getId returns the same id for any two dependency lists that are
\* permutations of each other, given the same name and version.
C2_OrderIndependent ==
    \A i, j \in 1..Len(calls) :
        ( /\ calls[i].name = calls[j].name
          /\ calls[i].version = calls[j].version
          /\ IsPermutation(calls[i].before, calls[j].before) )
        => calls[i].id = calls[j].id

C2_Witness ==
    \E i, j \in 1..Len(calls) :
        /\ calls[i].name = calls[j].name
        /\ calls[i].version = calls[j].version
        /\ IsPermutation(calls[i].before, calls[j].before)
        /\ calls[i].before # calls[j].before
        /\ calls[i].before # calls[i].after

\* C3: with a version file, Event.version is the file's module.version while
\* Event.id is derived from the version flag and the effective dependencies,
\* so the id does not depend on module.version.
C3_VersionAsymmetry ==
    (Completed("payload") /\ HasManifest) =>
        /\ zcPayload.version = Manifest.module.version
        /\ zcPayload.id = getId(flags.name, flags.version, EffectiveDependencies)

C3_Witness ==
    /\ Completed("payload")
    /\ HasManifest
    /\ Manifest.module.version # flags.version
    /\ zcPayload.version # flags.version
    /\ ExplicitDependencies # <<>>

C5_NoPartialSuccess ==
    /\ Len(requests) <= 1
    /\ requests # <<>> =>
          /\ SubSeq(done, 1, 5) = SubSeq(StageOrder, 1, 5)
          /\ flags.dependencies.wellFormed
          /\ HasManifest => (file.exists /\ file.content.wellFormed)
    /\ ( \/ ~Completed("ingest")
         \/ ~flags.dependencies.wellFormed
         \/ HasManifest /\ ~(file.exists /\ file.content.wellFormed) )
       => (requests = <<>> /\ pc \in {"start", "ingested", "parsed", "failed"})

C5_Witness ==
    /\ pc = "failed"
    /\ Completed("ingest")
    /\ HasManifest
    /\ file.exists
    /\ ~file.content.wellFormed
    /\ requests = <<>>

\* C6: after dependency resolution, without a version file the version is the
\* flag and the dependencies are the parsed flag in caller order; with one the
\* version is module.version and the dependencies are the explicit ones, then
\* {Jahia, '<jahia.version>-<jahia.build>'}, then the manifest's, undeduplicated.
C6_Resolution ==
    pc = "resolved" =>
        IF HasManifest
        THEN /\ elementVersion = Manifest.module.version
             /\ dependencies =
                    ExplicitDependencies
                    \o <<[name |-> NameJahia,
                          version |-> Manifest.jahia.version \o <<45>>
                                      \o Manifest.jahia.build]>>
                    \o Manifest.dependencies
        ELSE /\ elementVersion = flags.version
             /\ dependencies = ExplicitDependencies

C6_Witness ==
    /\ pc = "resolved"
    /\ HasManifest
    /\ Len(ExplicitDependencies) = MaxDeps
    /\ Manifest.dependencies # <<>>
    /\ Len(dependencies) = MaxDeps + 1 + Len(Manifest.dependencies)

\* C7: for every report, also with failures > tests, the Event has state PASS
\* iff failures = 0, runTotal = tests, runFailure = failures, runSuccess =
\* tests - failures, runDuration = time; and payload construction cannot fail.
C7_StateDerivation ==
    /\ pc = "identified" => ENABLED BuildPayload
    /\ Completed("payload") =>
          /\ zcPayload.state \in {"PASS", "FAIL"}
          /\ zcPayload.state = "PASS" <=> report.failures = 0
          /\ zcPayload.runTotal = report.tests
          /\ zcPayload.runFailure = report.failures
          /\ zcPayload.runSuccess = report.tests - report.failures
          /\ zcPayload.runDuration = report.time

C7_Witness ==
    /\ Completed("payload")
    /\ report.failures > report.tests
    /\ zcPayload.state = "FAIL"
    /\ zcPayload.runSuccess < 0

\* C8: two getId calls with the same dependency list whose names and versions
\* agree after dropping non-alphanumerics and lower-casing return the same
\* id; in particular getId('My-Mod', '1.0.0', []) = getId('mymod', '100', []).
C8_NormalizationInsensitive ==
    /\ getId(NameMyMod, Version1_0_0, <<>>) = getId(NameMymod, Version100, <<>>)
    /\ \A i, j \in 1..Len(calls) :
          ( /\ SameCleaned(calls[i].name, calls[j].name)
            /\ SameCleaned(calls[i].version, calls[j].version)
            /\ calls[i].before = calls[j].before )
          => calls[i].id = calls[j].id

C8_Witness ==
    \E i, j \in 1..Len(calls) :
        /\ calls[i].name = NameMyMod /\ calls[i].version = Version1_0_0
        /\ calls[j].name = NameMymod /\ calls[j].version = Version100
        /\ calls[i].before = calls[j].before
        /\ calls[i].id = calls[j].id

\* C9: getId leaves the caller's dependencies array as it was: same elements
\* in the same order after the call as before it.
C9_CallerArrayUnchanged ==
    \A i \in 1..Len(calls) : calls[i].after = calls[i].before

\* C10: the stages complete in the order ingest, resolve, id, payload, sign,
\* (log,) send, each using what the previous ones produced, and whenever a
\* POST has been attempted, failed or not, the Event was already written to
\* standard output as JSON.
C10_StagesInOrder ==
    /\ done = SubSeq(StageOrder, 1, Len(done))
    /\ Completed("payload") =>
          /\ zcPayload.id = id
          /\ zcPayload.dependencies = dependencies
          /\ zcPayload.version = elementVersion
    /\ requests # <<>> =>
          /\ Completed("log")
          /\ stdout = <<JSONstringify(zcPayload)>>
          /\ requests[1].body = stdout[1]

C10_Witness ==
    /\ pc = "failed"
    /\ requests # <<>>
    /\ stdout # <<>>
    /\ ~Completed("send")

====
